---- MODULE Spec2Model ----
(***************************************************************************)
(* Model of preserve_files: tar.py (tar_files, untar_files, delete_files,  *)
(* main) and preserve.py (Preserver.push, Preserver.pull).                 *)
(*                                                                         *)
(* Strings are sequences of one-character strings, so that startswith,     *)
(* endswith, strip, split, os.path.abspath and os.path.dirname are         *)
(* computed the way the code computes them.  The filesystem is a function  *)
(* from absolute normalised file paths to file contents; a directory       *)
(* exists when some file lies below it.                                    *)
(***************************************************************************)
EXTENDS Integers, Sequences, FiniteSets, TLC

VARIABLES cwd, fs, localArchive, remote, origin, obs

vars == <<cwd, fs, localArchive, remote, origin, obs>>

(***************************************************************************)
(* Bounds                                                                  *)
(***************************************************************************)
MaxTokens == 3
MaxManifest == 2
MaxContent == 2

(***************************************************************************)
(* Strings                                                                 *)
(***************************************************************************)
SLASH == "/"
NL == "\n"
SPACE == " "
DOT == "."

WhiteSpace == {SPACE, NL, "\t"}

UsersPrefix == <<"U", "s", "e", "r", "s", "/">>
HomePrefix == <<"h", "o", "m", "e", "/">>

StartsWith(s, p) ==
    /\ Len(p) <= Len(s)
    /\ SubSeq(s, 1, Len(p)) = p

EndsWith(s, p) ==
    /\ Len(p) <= Len(s)
    /\ SubSeq(s, Len(s) - Len(p) + 1, Len(s)) = p

RECURSIVE LStrip(_)
LStrip(s) ==
    IF s # <<>> /\ Head(s) \in WhiteSpace THEN LStrip(Tail(s)) ELSE s

RECURSIVE RStrip(_)
RStrip(s) ==
    IF s # <<>> /\ s[Len(s)] \in WhiteSpace
    THEN RStrip(SubSeq(s, 1, Len(s) - 1))
    ELSE s

Strip(s) == RStrip(LStrip(s))

RECURSIVE Split(_, _)
Split(s, sep) ==
    IF \E i \in 1..Len(s) : s[i] = sep
    THEN LET i == CHOOSE j \in 1..Len(s) :
                     /\ s[j] = sep
                     /\ \A k \in 1..(j - 1) : s[k] # sep
         IN  <<SubSeq(s, 1, i - 1)>> \o Split(SubSeq(s, i + 1, Len(s)), sep)
    ELSE <<s>>

RECURSIVE JoinWith(_, _)
JoinWith(comps, sep) ==
    IF comps = <<>> THEN <<>>
    ELSE IF Len(comps) = 1 THEN comps[1]
    ELSE comps[1] \o <<sep>> \o JoinWith(Tail(comps), sep)

(***************************************************************************)
(* os.path (posixpath) as called by tar.py                                 *)
(***************************************************************************)
IsAbs(p) == StartsWith(p, <<SLASH>>)

PathJoin(a, p) ==
    IF IsAbs(p) THEN p
    ELSE IF a = <<>> \/ EndsWith(a, <<SLASH>>) THEN a \o p
    ELSE a \o <<SLASH>> \o p

DotDot == <<DOT, DOT>>

RECURSIVE NormComps(_, _, _)
NormComps(comps, acc, rooted) ==
    IF comps = <<>> THEN acc
    ELSE LET c == Head(comps)
             rest == Tail(comps)
         IN  IF c = <<>> \/ c = <<DOT>> THEN NormComps(rest, acc, rooted)
             ELSE IF \/ c # DotDot
                     \/ (~rooted /\ acc = <<>>)
                     \/ (acc # <<>> /\ acc[Len(acc)] = DotDot)
                  THEN NormComps(rest, Append(acc, c), rooted)
             ELSE IF acc # <<>>
                  THEN NormComps(rest, SubSeq(acc, 1, Len(acc) - 1), rooted)
             ELSE NormComps(rest, acc, rooted)

Normpath(p) ==
    IF p = <<>> THEN <<DOT>>
    ELSE LET slashes == IF ~IsAbs(p) THEN 0
                        ELSE IF StartsWith(p, <<SLASH, SLASH>>)
                                /\ ~StartsWith(p, <<SLASH, SLASH, SLASH>>)
                             THEN 2
                        ELSE 1
             body == JoinWith(NormComps(Split(p, SLASH), <<>>, slashes > 0), SLASH)
             res == [i \in 1..slashes |-> SLASH] \o body
         IN  IF res = <<>> THEN <<DOT>> ELSE res

Abspath(p, dir) ==
    Normpath(IF IsAbs(p) THEN p ELSE PathJoin(dir, p))

LastSlash(p) ==
    IF \E i \in 1..Len(p) : p[i] = SLASH
    THEN CHOOSE i \in 1..Len(p) :
            /\ p[i] = SLASH
            /\ \A k \in (i + 1)..Len(p) : p[k] # SLASH
    ELSE 0

RECURSIVE RStripSlash(_)
RStripSlash(s) ==
    IF s # <<>> /\ s[Len(s)] = SLASH
    THEN RStripSlash(SubSeq(s, 1, Len(s) - 1))
    ELSE s

Dirname(p) ==
    LET head == SubSeq(p, 1, LastSlash(p))
    IN  IF head # <<>> /\ \E i \in 1..Len(head) : head[i] # SLASH
        THEN RStripSlash(head)
        ELSE head

(* TargetPath without the 'home/' prefix. *)
TargetPathNoHome(member, dir) ==
    IF StartsWith(member, UsersPrefix) THEN <<SLASH>> \o member
    ELSE IF ~IsAbs(member) THEN Abspath(member, dir)
    ELSE member

(* The path-resolution step of untar_files. *)
TargetPath(member, dir) ==
    IF StartsWith(member, UsersPrefix) \/ StartsWith(member, HomePrefix)
    THEN <<SLASH>> \o member
    ELSE IF ~IsAbs(member) THEN Abspath(member, dir)
    ELSE member

(* Skipped without the directory test. *)
SkippedEmptyOnly(member) == member = <<>>

(* Members the extraction loop skips: empty lines and directories. *)
Skipped(member) == member = <<>> \/ EndsWith(member, <<SLASH>>)

(***************************************************************************)
(* Filesystem and archive values                                           *)
(***************************************************************************)
Contents == 1..MaxContent
DirData == 0

WorkDir == <<SLASH, "w">>

PathA == <<"a">>
PathASp == <<"a", SPACE>>

(* Paths a manifest may list, and the files the environment may touch. *)
ManifestPaths == {PathA, PathASp}
EnvFiles == {PathA, PathASp}

NoFile == [present |-> FALSE, ok |-> FALSE, members |-> <<>>]
Corrupt == [present |-> TRUE, ok |-> FALSE, members |-> <<>>]

Cwds == {<<SLASH>>, WorkDir}

(* The kernel's resolution of a path given to exists, open or remove,      *)
(* tabulated over the paths the commands are given.                        *)
KeyTable == [p \in ManifestPaths \cup EnvFiles, d \in Cwds |-> Abspath(p, d)]

FsKey(p, dir) == KeyTable[p, dir]

DirPrefix(k) == IF EndsWith(k, <<SLASH>>) THEN k ELSE k \o <<SLASH>>

FilesBelow(f, k) == {q \in DOMAIN f : q # k /\ StartsWith(q, DirPrefix(k))}

IsFile(f, p, dir) == FsKey(p, dir) \in DOMAIN f

IsDir(f, p, dir) == ~IsFile(f, p, dir) /\ FilesBelow(f, FsKey(p, dir)) # {}

Exists(f, p, dir) == IsFile(f, p, dir) \/ IsDir(f, p, dir)

(* A path open() refuses to write because it is a directory: one holding  *)
(* files, or the working directory or a directory above it.                *)
IsDirKey(f, k, dir) ==
    \/ FilesBelow(f, k) # {}
    \/ k = Normpath(dir)
    \/ StartsWith(Normpath(dir), DirPrefix(k))

(* A path whose last component is '.' or '..' names a directory. *)
NamesDirectory(t) ==
    \/ EndsWith(t, <<SLASH, DOT>>)
    \/ EndsWith(t, <<SLASH, DOT, DOT>>)

(* A path below an existing file: its parent directories cannot be made. *)
BelowFile(f, k) == \E q \in DOMAIN f : StartsWith(k, DirPrefix(q))

WriteFile(f, k, data) ==
    [q \in DOMAIN f \cup {k} |-> IF q = k THEN data ELSE f[q]]

RemoveFile(f, k) == [q \in DOMAIN f \ {k} |-> f[q]]

RECURSIVE SetToSeq(_)
SetToSeq(S) ==
    IF S = {} THEN <<>>
    ELSE LET x == CHOOSE y \in S : TRUE
         IN  <<x>> \o SetToSeq(S \ {x})

(***************************************************************************)
(* The archive codec (the tar binary run by subprocess)                    *)
(***************************************************************************)
RECURSIVE LStripSlash(_)
LStripSlash(s) ==
    IF s # <<>> /\ Head(s) = SLASH THEN LStripSlash(Tail(s)) ELSE s

(* tar -c on one path: a file becomes one member; a directory becomes a    *)
(* directory member (name ending in '/') followed by the files below it.   *)
CodecExpand(f, p, dir) ==
    LET k == FsKey(p, dir)
        name == LStripSlash(p)
    IN  IF k \in DOMAIN f
        THEN <<[name |-> name, data |-> f[k]]>>
        ELSE LET dname == DirPrefix(RStripSlash(name))
                 below == SetToSeq(FilesBelow(f, k))
             IN  <<[name |-> dname, data |-> DirData]>> \o
                 [i \in 1..Len(below) |->
                    [name |-> dname \o SubSeq(below[i], Len(DirPrefix(k)) + 1,
                                              Len(below[i])),
                     data |-> f[below[i]]]]

RECURSIVE CodecMembers(_, _, _)
CodecMembers(f, paths, dir) ==
    IF paths = <<>> THEN <<>>
    ELSE CodecExpand(f, Head(paths), dir) \o CodecMembers(f, Tail(paths), dir)

CodecCreate(f, paths, dir) ==
    [present |-> TRUE, ok |-> TRUE, members |-> CodecMembers(f, paths, dir)]

(* stdout of tar -t: one member name per line. *)
RECURSIVE CodecList(_)
CodecList(members) ==
    IF members = <<>> THEN <<>>
    ELSE Head(members).name \o <<NL>> \o CodecList(Tail(members))

HasMember(arch, m) == \E i \in 1..Len(arch.members) : arch.members[i].name = m

(* stdout of tar -x -O member. *)
CodecExtract(arch, m) ==
    LET i == CHOOSE j \in 1..Len(arch.members) :
                /\ arch.members[j].name = m
                /\ \A k \in 1..(j - 1) : arch.members[k].name # m
    IN  arch.members[i].data

(***************************************************************************)
(* Observation of the last operation                                       *)
(***************************************************************************)
NoManifest == [status |-> "none", files |-> <<>>]

Manifests == UNION {[1..k -> ManifestPaths] : k \in 0..MaxManifest}

ManifestInputs ==
    {[status |-> "ok", files |-> fl] : fl \in Manifests}
    \cup {[status |-> "missing", files |-> <<>>],
          [status |-> "invalid", files |-> <<>>]}

Ev(e, p) == [ev |-> e, path |-> p]

ObsBlank ==
    [op |-> "init", exit |-> 0, ret |-> FALSE, manifest |-> NoManifest,
     codecInvoked |-> FALSE, codecArgs |-> <<>>, log |-> <<>>, steps |-> <<>>,
     faults |-> <<>>, outcome |-> "none", uploaded |-> NoFile,
     cleanup |-> FALSE]

(***************************************************************************)
(* tar.py: tar_files                                                       *)
(***************************************************************************)
(* ExistingFiles without the existence test. *)
ExistingFilesAll(f, files, dir) == files

RECURSIVE ExistingFiles(_, _, _)
ExistingFiles(f, files, dir) ==
    IF files = <<>> THEN <<>>
    ELSE IF Exists(f, Head(files), dir)
         THEN <<Head(files)>> \o ExistingFiles(f, Tail(files), dir)
         ELSE ExistingFiles(f, Tail(files), dir)

RECURSIVE FilterLog(_, _, _)
FilterLog(f, files, dir) ==
    IF files = <<>> THEN <<>>
    ELSE <<Ev(IF Exists(f, Head(files), dir) THEN "adding" ELSE "warn_skip",
              Head(files))>> \o FilterLog(f, Tail(files), dir)

(* What the archive holds of the manifest's file paths, by path. *)
RECURSIVE Snapshot(_, _, _)
Snapshot(f, files, dir) ==
    IF files = <<>> THEN <<>>
    ELSE IF IsFile(f, Head(files), dir)
         THEN <<[path |-> Head(files), data |-> f[FsKey(Head(files), dir)]]>>
              \o Snapshot(f, Tail(files), dir)
         ELSE Snapshot(f, Tail(files), dir)

CodecOutcomes == {"ok", "fail_untouched", "fail_partial"}

(* The codec's outcome is an input only when the codec is run. *)
CodecInputs(f, m, dir) ==
    IF m.status = "ok" /\ ExistingFiles(f, m.files, dir) # <<>>
    THEN CodecOutcomes
    ELSE {"ok"}

(* tar_files run by main: the archive left at archive_name, what was passed *)
(* to the codec, the report and the exit status of the process.            *)
TarFiles(f, arch, m, codec, dir) ==
    LET base == [archive |-> arch, invoked |-> FALSE, args |-> <<>>,
                 log |-> <<>>, exit |-> 0, snap |-> <<>>, kept |-> TRUE]
        existing == ExistingFiles(f, m.files, dir)
        flog == FilterLog(f, m.files, dir)
    IN  IF m.status # "ok"
        THEN [base EXCEPT !.log = <<Ev("manifest_error", <<>>)>>, !.exit = 1]
        ELSE IF m.files = <<>>
        THEN [base EXCEPT !.log = <<Ev("no_files", <<>>)>>]
        ELSE IF existing = <<>>
        THEN [base EXCEPT !.log = flog \o <<Ev("no_files", <<>>)>>]
        ELSE IF codec = "ok"
        THEN [base EXCEPT !.archive = CodecCreate(f, existing, dir),
                          !.invoked = TRUE, !.args = existing,
                          !.log = flog \o <<Ev("created", <<>>)>>,
                          !.snap = Snapshot(f, m.files, dir), !.kept = FALSE]
        ELSE [base EXCEPT !.archive = IF codec = "fail_partial" THEN Corrupt
                                      ELSE arch,
                          !.invoked = TRUE, !.args = existing,
                          !.log = flog \o <<Ev("codec_error", <<>>)>>,
                          !.exit = 1, !.kept = (codec = "fail_untouched")]

(***************************************************************************)
(* tar.py: untar_files                                                     *)
(***************************************************************************)
UntarFaults == {"none", "mkdir", "extract", "write"}

ListMembers(arch) == Split(Strip(CodecList(arch.members)), NL)

Step(m, t, r) == [member |-> m, target |-> t, result |-> r]

RECURSIVE UntarLoop(_, _, _, _, _, _, _)
UntarLoop(members, i, f, steps, faults, arch, dir) ==
    IF i > Len(members)
    THEN [fs |-> f, steps |-> steps, outcome |-> "completed"]
    ELSE LET m == members[i]
             t == TargetPath(m, dir)
         IN  IF Skipped(m)
             THEN UntarLoop(members, i + 1, f,
                            Append(steps, Step(m, <<>>, "skipped")),
                            faults, arch, dir)
             ELSE IF /\ Dirname(t) # <<>>
                     /\ (faults[i] = "mkdir" \/ BelowFile(f, Normpath(t)))
             THEN [fs |-> f, steps |-> Append(steps, Step(m, t, "mkdir_raised")),
                   outcome |-> "crashed"]
             ELSE IF faults[i] = "extract" \/ ~HasMember(arch, m)
             THEN UntarLoop(members, i + 1, f,
                            Append(steps, Step(m, t, "extract_error")),
                            faults, arch, dir)
             ELSE IF \/ faults[i] = "write"
                     \/ IsDirKey(f, Normpath(t), dir)
                     \/ NamesDirectory(t)
             THEN UntarLoop(members, i + 1, f,
                            Append(steps, Step(m, t, "write_error")),
                            faults, arch, dir)
             ELSE UntarLoop(members, i + 1,
                            WriteFile(f, Normpath(t), CodecExtract(arch, m)),
                            Append(steps, Step(m, t, "written")),
                            faults, arch, dir)

(* untar_files run by main: the filesystem it leaves, the per-member steps, *)
(* how it ended and the exit status of the process.                        *)
UntarFiles(f, arch, faults, dir) ==
    IF ~arch.present
    THEN [fs |-> f, steps |-> <<>>, outcome |-> "not_found", exit |-> 0]
    ELSE IF ~arch.ok
    THEN [fs |-> f, steps |-> <<>>, outcome |-> "list_error", exit |-> 0]
    ELSE LET r == UntarLoop(ListMembers(arch), 1, f, <<>>, faults, arch, dir)
         IN  [fs |-> r.fs, steps |-> r.steps, outcome |-> r.outcome,
              exit |-> IF r.outcome = "crashed" THEN 1 ELSE 0]

FaultInputs(arch) ==
    IF arch.present /\ arch.ok
    THEN [1..Len(ListMembers(arch)) -> UntarFaults]
    ELSE {<<>>}

(***************************************************************************)
(* tar.py: delete_files                                                    *)
(***************************************************************************)
(* DeleteLoop giving up at the first removal that fails. *)
RECURSIVE DeleteLoopAbort(_, _, _, _, _, _)
DeleteLoopAbort(files, i, f, log, faults, dir) ==
    IF i > Len(files) THEN [fs |-> f, log |-> Append(log, Ev("completed", <<>>))]
    ELSE LET p == files[i]
         IN  IF Exists(f, p, dir)
             THEN IF faults[i] \/ IsDir(f, p, dir)
                  THEN [fs |-> f, log |-> Append(log, Ev("error_delete", p))]
                  ELSE DeleteLoopAbort(files, i + 1, RemoveFile(f, FsKey(p, dir)),
                                       Append(log, Ev("deleted", p)), faults, dir)
             ELSE DeleteLoopAbort(files, i + 1, f,
                                  Append(log, Ev("not_found_skip", p)), faults, dir)

RECURSIVE DeleteLoop(_, _, _, _, _, _)
DeleteLoop(files, i, f, log, faults, dir) ==
    IF i > Len(files) THEN [fs |-> f, log |-> Append(log, Ev("completed", <<>>))]
    ELSE LET p == files[i]
         IN  IF Exists(f, p, dir)
             THEN IF faults[i] \/ IsDir(f, p, dir)
                  THEN DeleteLoop(files, i + 1, f,
                                  Append(log, Ev("error_delete", p)), faults, dir)
                  ELSE DeleteLoop(files, i + 1, RemoveFile(f, FsKey(p, dir)),
                                  Append(log, Ev("deleted", p)), faults, dir)
             ELSE DeleteLoop(files, i + 1, f,
                             Append(log, Ev("not_found_skip", p)), faults, dir)

DeleteFiles(f, m, faults, dir) ==
    IF m.status # "ok"
    THEN [fs |-> f, log |-> <<Ev("manifest_error", <<>>)>>, exit |-> 1]
    ELSE IF m.files = <<>>
    THEN [fs |-> f, log |-> <<Ev("no_files", <<>>)>>, exit |-> 0]
    ELSE LET r == DeleteLoop(m.files, 1, f, <<>>, faults, dir)
         IN  [fs |-> r.fs, log |-> r.log, exit |-> 0]

(***************************************************************************)
(* Commands of tar.py                                                      *)
(***************************************************************************)
TarCmd ==
    \E m \in ManifestInputs : \E codec \in CodecInputs(fs, m, cwd) :
        \E r \in {TarFiles(fs, localArchive, m, codec, cwd)} :
            /\ localArchive' = r.archive
            /\ origin' = IF r.kept THEN origin ELSE r.snap
            /\ obs' = [ObsBlank EXCEPT !.op = "tar", !.exit = r.exit,
                                       !.manifest = m,
                                       !.codecInvoked = r.invoked,
                                       !.codecArgs = r.args, !.log = r.log]
            /\ UNCHANGED <<cwd, fs, remote>>

UntarCmd ==
    \E faults \in FaultInputs(localArchive) :
        \E r \in {UntarFiles(fs, localArchive, faults, cwd)} :
            /\ fs' = r.fs
            /\ obs' = [ObsBlank EXCEPT !.op = "untar", !.exit = r.exit,
                                       !.steps = r.steps, !.faults = faults,
                                       !.outcome = r.outcome]
            /\ UNCHANGED <<cwd, localArchive, remote, origin>>

DeleteCmd ==
    \E m \in ManifestInputs : \E faults \in [1..Len(m.files) -> BOOLEAN] :
        \E r \in {DeleteFiles(fs, m, faults, cwd)} :
            /\ fs' = r.fs
            /\ obs' = [ObsBlank EXCEPT !.op = "delete", !.exit = r.exit,
                                       !.manifest = m, !.log = r.log]
            /\ UNCHANGED <<cwd, localArchive, remote, origin>>

(***************************************************************************)
(* preserve.py: Preserver.push and Preserver.pull                          *)
(***************************************************************************)
TransferOutcomes == {"ok", "failed"}

(* PushAttempt without the exit status of the build step. *)
PushAttemptAnyExit(t) == t.archive.present

(* push goes on to the upload when the build step exited with status 0   *)
(* and the archive file exists.                                            *)
PushAttempt(t) == t.exit = 0 /\ t.archive.present


Push ==
    \E m \in ManifestInputs : \E codec \in CodecInputs(fs, m, cwd) :
    \E t \in {TarFiles(fs, localArchive, m, codec, cwd)} :
    \E upload \in IF PushAttempt(t) THEN TransferOutcomes ELSE {"ok"} :
        LET attempt == PushAttempt(t)
            done == attempt /\ upload = "ok"
            plog == IF t.exit # 0 THEN <<Ev("build_failed", <<>>)>>
                    ELSE IF ~attempt
                    THEN <<Ev("build_ok", <<>>), Ev("archive_missing", <<>>)>>
                    ELSE <<Ev("build_ok", <<>>),
                           Ev(IF upload = "ok" THEN "upload_ok"
                              ELSE "upload_rejected", <<>>)>>
        IN  /\ localArchive' = t.archive
            /\ origin' = IF t.kept THEN origin ELSE t.snap
            /\ remote' = IF done THEN t.archive ELSE remote
            /\ obs' = [ObsBlank EXCEPT !.op = "push", !.ret = done,
                                       !.exit = t.exit, !.manifest = m,
                                       !.codecInvoked = t.invoked,
                                       !.codecArgs = t.args,
                                       !.log = t.log \o plog,
                                       !.uploaded = IF done THEN t.archive
                                                    ELSE NoFile]
            /\ UNCHANGED <<cwd, fs>>

Pull ==
    \E download \in TransferOutcomes, cleanup \in BOOLEAN :
        IF ~(download = "ok" /\ remote.present)
        THEN /\ obs' = [ObsBlank EXCEPT !.op = "pull", !.cleanup = cleanup,
                                        !.log = <<Ev("download_failed", <<>>)>>]
             /\ UNCHANGED <<cwd, fs, localArchive, remote, origin>>
        ELSE \E faults \in FaultInputs(remote) :
             \E r \in {UntarFiles(fs, remote, faults, cwd)} :
                 /\ fs' = r.fs
                 /\ localArchive' = IF r.exit = 0 /\ cleanup THEN NoFile
                                    ELSE remote
                 /\ origin' = <<>>
                 /\ obs' = [ObsBlank EXCEPT
                              !.op = "pull", !.cleanup = cleanup,
                              !.ret = (r.exit = 0), !.exit = r.exit,
                              !.steps = r.steps, !.outcome = r.outcome,
                              !.faults = faults,
                              !.log = <<Ev("download_ok", <<>>),
                                        Ev(IF r.exit = 0 THEN "restore_ok"
                                           ELSE "restore_failed", <<>>)>>
                                      \o IF r.exit = 0 /\ cleanup
                                         THEN <<Ev("cleaned", <<>>)>>
                                         ELSE <<>>]
                 /\ UNCHANGED <<cwd, remote>>

(***************************************************************************)
(* The environment: other programs change the preserved files, and another *)
(* writer leaves a partially uploaded object under the key.                *)
(***************************************************************************)
EnvWrite ==
    \E p \in EnvFiles, c \in Contents :
        /\ fs' = WriteFile(fs, FsKey(p, cwd), c)
        /\ obs' = [ObsBlank EXCEPT !.op = "env"]
        /\ UNCHANGED <<cwd, localArchive, remote, origin>>

EnvRemove ==
    \E p \in EnvFiles :
        /\ IsFile(fs, p, cwd)
        /\ fs' = RemoveFile(fs, FsKey(p, cwd))
        /\ obs' = [ObsBlank EXCEPT !.op = "env"]
        /\ UNCHANGED <<cwd, localArchive, remote, origin>>

EnvRemotePartial ==
    /\ remote # Corrupt
    /\ remote' = Corrupt
    /\ obs' = [ObsBlank EXCEPT !.op = "env"]
    /\ UNCHANGED <<cwd, fs, localArchive, origin>>

(***************************************************************************)
(* Specifications                                                          *)
(***************************************************************************)
EmptyFs == [q \in {} |-> 0]

Init ==
    /\ cwd = WorkDir
    /\ fs = EmptyFs
    /\ localArchive = NoFile
    /\ remote = NoFile
    /\ origin = <<>>
    /\ obs = ObsBlank

(* The commands of tar.py, run in any order while the files change. *)
Next ==
    \/ TarCmd
    \/ UntarCmd
    \/ DeleteCmd
    \/ EnvWrite
    \/ EnvRemove

Spec == Init /\ [][Next]_vars

(* tar_files alone, and delete_files alone, while the files change. *)
NextTar ==
    \/ TarCmd
    \/ EnvWrite
    \/ EnvRemove

SpecTar == Init /\ [][NextTar]_vars

NextDelete ==
    \/ DeleteCmd
    \/ EnvWrite
    \/ EnvRemove

SpecDelete == Init /\ [][NextDelete]_vars

(* The Preserver: one preserved file, pushed and pulled under one key. *)
InitSync ==
    /\ cwd = WorkDir
    /\ fs = WriteFile(EmptyFs, FsKey(PathA, WorkDir), 1)
    /\ localArchive = NoFile
    /\ remote = NoFile
    /\ origin = <<>>
    /\ obs = ObsBlank

NextSync ==
    \/ Push
    \/ Pull
    \/ EnvRemove
    \/ EnvRemotePartial

SpecSync == InitSync /\ [][NextSync]_vars

(* untar_files on an archive holding a member of any name, alone or beside *)
(* a plain file member, restored from any working directory.               *)
Tokens ==
    {<<"a">>, <<SLASH>>, <<SPACE>>, <<DOT>>, <<"h", "o", "m", "e">>,
     <<"U", "s", "e", "r", "s">>}

RECURSIVE Flatten(_)
Flatten(ts) == IF ts = <<>> THEN <<>> ELSE Head(ts) \o Flatten(Tail(ts))

MemberNames == {Flatten(ts) : ts \in UNION {[1..k -> Tokens] : k \in 1..MaxTokens}}

PlainMember == [name |-> <<"a">>, data |-> 2]

InitMember ==
    /\ cwd \in Cwds
    /\ fs = EmptyFs
    /\ \E n \in MemberNames :
          \E ms \in {<<[name |-> n, data |-> 1]>>}
                     \cup IF n = PlainMember.name THEN {}
                          ELSE {<<[name |-> n, data |-> 1], PlainMember>>,
                                <<PlainMember, [name |-> n, data |-> 1]>>} :
              localArchive = [present |-> TRUE, ok |-> TRUE, members |-> ms]
    /\ remote = NoFile
    /\ origin = <<>>
    /\ obs = ObsBlank

(* One restore of each archive. *)
NextMember == obs.op = "init" /\ UntarCmd

SpecMember == InitMember /\ [][NextMember]_vars

(***************************************************************************)
(* Properties                                                              *)
(***************************************************************************)

(* C1: in untar_files every member name that is non-empty and does not end *)
(* with '/' gets exactly one restoration target: '/' + name when the name  *)
(* starts with 'Users/' or 'home/', the name joined to the working         *)
(* directory and normalised when it is not absolute, the name itself       *)
(* otherwise; and the target is always an absolute path.                   *)
C1_TargetResolution ==
    obs.op = "untar" =>
        LET listed == ListMembers(localArchive)
        IN  /\ Len(obs.steps) <= Len(listed)
            /\ obs.outcome = "completed" => Len(obs.steps) = Len(listed)
            /\ \A i \in DOMAIN obs.steps :
                  LET m == obs.steps[i].member
                      t == obs.steps[i].target
                  IN  /\ m = listed[i]
                      /\ (m # <<>> /\ m[Len(m)] # SLASH) =>
                            /\ t = IF \/ StartsWith(m, UsersPrefix)
                                      \/ StartsWith(m, HomePrefix)
                                   THEN <<SLASH>> \o m
                                   ELSE IF m[1] # SLASH
                                   THEN Normpath(PathJoin(cwd, m))
                                   ELSE m
                            /\ t # <<>>
                            /\ t[1] = SLASH

C1_Witness ==
    /\ obs.op = "untar"
    /\ \E i, j \in DOMAIN obs.steps :
          /\ StartsWith(obs.steps[i].member, HomePrefix)
          /\ obs.steps[i].result = "written"
          /\ ~IsAbs(obs.steps[j].member)
          /\ ~StartsWith(obs.steps[j].member, HomePrefix)
          /\ obs.steps[j].result = "written"
          /\ StartsWith(obs.steps[j].target, cwd)

(* C2: after tar_files and then untar_files on the archive it produced,    *)
(* run from the same working directory with no step failing for outside    *)
(* reasons, every relative manifest file path that does not start with     *)
(* 'Users/' or 'home/' holds the content it had when archived, whatever    *)
(* happened to the files in between.                                       *)
C2_RoundTrip ==
    ( /\ obs.op = "untar"
      /\ obs.outcome = "completed"
      /\ \A i \in DOMAIN obs.faults : obs.faults[i] = "none" )
    => \A i \in DOMAIN origin :
          LET p == origin[i].path
          IN  ( /\ ~IsAbs(p)
                /\ ~StartsWith(p, UsersPrefix)
                /\ ~StartsWith(p, HomePrefix) )
              => /\ IsFile(fs, p, cwd)
                 /\ fs[FsKey(p, cwd)] = origin[i].data

(* C3: a member of the archive that cannot be restored (parent directories *)
(* not created, bytes not read, target not written) is reported alone: the *)
(* run is not aborted, every listed member is processed and every file     *)
(* member that meets no failure of its own is written.                     *)
C3_MemberFailureIsolated ==
    (obs.op = "untar" /\ localArchive.present /\ localArchive.ok) =>
        LET listed == ListMembers(localArchive)
        IN  /\ obs.outcome = "completed"
            /\ obs.exit = 0
            /\ Len(obs.steps) = Len(listed)
            /\ \A i \in DOMAIN obs.steps :
                  ( /\ listed[i] # <<>>
                    /\ ~EndsWith(listed[i], <<SLASH>>)
                    /\ HasMember(localArchive, listed[i])
                    /\ obs.faults[i] = "none" )
                  => obs.steps[i].result \in {"written", "write_error"}

(* C4: when the listing of the archive fails, no member is processed and   *)
(* the restore ends in failure: the untar command exits with a non-zero    *)
(* status and pull returns False.                                          *)
C4_OpenFailureIsFatal ==
    (obs.op = "pull" /\ obs.outcome = "list_error") =>
        /\ obs.steps = <<>>
        /\ obs.exit # 0
        /\ ~obs.ret

(* C5: tar_files passes to the codec exactly the manifest paths that exist *)
(* at call time, in manifest order and as written; each missing path is    *)
(* skipped with a warning and does not make the command fail; when no      *)
(* manifest path exists the codec is not invoked and the archive file is   *)
(* left as it was.                                                         *)
C5_TarPassesExisting ==
    [][ (obs'.op = "tar" /\ obs'.manifest.status = "ok") =>
          LET files == obs'.manifest.files
              ex == SelectSeq(files, LAMBDA p : Exists(fs, p, cwd))
          IN  /\ ex # <<>> => (obs'.codecInvoked /\ obs'.codecArgs = ex)
              /\ ex = <<>> => /\ ~obs'.codecInvoked
                              /\ localArchive' = localArchive
                              /\ obs'.exit = 0
              /\ \A i \in DOMAIN files :
                    ~Exists(fs, files[i], cwd) =>
                        \E j \in DOMAIN obs'.log :
                            obs'.log[j] = Ev("warn_skip", files[i])
              /\ obs'.exit # 0 =>
                    \E j \in DOMAIN obs'.log : obs'.log[j].ev = "codec_error"
      ]_vars

C5_Witness ==
    /\ obs.op = "tar"
    /\ obs.exit = 0
    /\ obs.codecInvoked
    /\ Len(obs.manifest.files) = 2
    /\ Len(obs.codecArgs) = 1
    /\ ~Exists(fs, obs.manifest.files[1], cwd)
    /\ localArchive.members = <<[name |-> obs.manifest.files[2],
                                 data |-> fs[FsKey(obs.manifest.files[2], cwd)]]>>

(* C6: in push the upload starts only after the build step has ended, and *)
(* only when that step exited with status 0 and <key>.tar.gz exists; when  *)
(* the build step failed (a missing or invalid manifest included) or the   *)
(* archive is absent, push returns False without an upload; when the store *)
(* rejects the upload, push returns False.                                 *)
C6_PushOrder ==
    obs.op = "push" =>
        LET uploads == {i \in DOMAIN obs.log :
                           obs.log[i].ev \in {"upload_ok", "upload_rejected"}}
        IN  /\ \A i \in uploads :
                  /\ \E j \in 1..(i - 1) : obs.log[j].ev = "build_ok"
                  /\ obs.exit = 0
                  /\ localArchive.present
            /\ (obs.exit # 0 \/ ~localArchive.present) =>
                  (~obs.ret /\ uploads = {})
            /\ obs.manifest.status # "ok" => (obs.exit # 0 /\ ~obs.ret)
            /\ (\E i \in uploads : obs.log[i].ev = "upload_rejected") =>
                  (~obs.ret /\ obs.uploaded = NoFile)
            /\ obs.ret => /\ \E i \in uploads : obs.log[i].ev = "upload_ok"
                          /\ remote = localArchive

C6_Witness ==
    /\ obs.op = "push"
    /\ obs.ret
    /\ obs.codecInvoked
    /\ remote = localArchive
    /\ remote.members # <<>>

(* C7: in pull the restore runs only after a successful download: when the *)
(* download fails, pull returns False and nothing is restored; and after   *)
(* any pull that downloaded the archive with cleanup on, <key>.tar.gz no   *)
(* longer exists.                                                          *)
C7_PullOrderAndCleanup ==
    obs.op = "pull" =>
        /\ obs.log[1].ev = "download_failed" =>
              (~obs.ret /\ obs.steps = <<>> /\ obs.outcome = "none")
        /\ (obs.log[1].ev = "download_ok" /\ obs.cleanup) =>
              ~localArchive.present

(* C8: delete_files visits every manifest path in order and runs to the    *)
(* end: a removed path no longer exists, a missing path is skipped without *)
(* error, a removal that fails is reported for its path only and the later *)
(* paths are still visited, and nothing outside the manifest is removed or *)
(* changed.                                                                *)
C8_DeleteVisitsAll ==
    [][ (obs'.op = "delete" /\ obs'.manifest.status = "ok") =>
          LET files == obs'.manifest.files
              log == obs'.log
          IN  /\ obs'.exit = 0
              /\ files = <<>> => fs' = fs
              /\ files # <<>> =>
                    /\ Len(log) = Len(files) + 1
                    /\ log[Len(log)].ev = "completed"
                    /\ \A i \in DOMAIN files :
                          /\ log[i].path = files[i]
                          /\ log[i].ev \in {"deleted", "error_delete",
                                            "not_found_skip"}
                          /\ log[i].ev = "deleted" =>
                                (Exists(fs, files[i], cwd)
                                    /\ ~Exists(fs', files[i], cwd))
                          /\ log[i].ev = "not_found_skip" =>
                                ~Exists(fs', files[i], cwd)
                          /\ log[i].ev = "error_delete" =>
                                Exists(fs, files[i], cwd)
              /\ \A k \in DOMAIN fs :
                    k \notin DOMAIN fs' =>
                        \E i \in DOMAIN files :
                            /\ FsKey(files[i], cwd) = k
                            /\ log[i].ev \in {"deleted", "not_found_skip"}
              /\ \A k \in DOMAIN fs' : k \in DOMAIN fs /\ fs'[k] = fs[k]
      ]_vars

C8_Witness ==
    /\ obs.op = "delete"
    /\ Len(obs.log) = 3
    /\ obs.log[1].ev = "error_delete"
    /\ obs.log[2].ev = "deleted"
    /\ obs.log[1].path # obs.log[2].path
    /\ Exists(fs, obs.log[1].path, cwd)
    /\ ~Exists(fs, obs.log[2].path, cwd)

(* C9: untar_files never extracts or writes a directory member (a name     *)
(* ending with '/') or an empty member name, and the only files it writes  *)
(* are the restoration targets of file members.                            *)
C9_DirectoriesNeverWritten ==
    obs.op = "untar" =>
        /\ \A i \in DOMAIN obs.steps :
              LET m == obs.steps[i].member
              IN  (m = <<>> \/ m[Len(m)] = SLASH) =>
                     /\ obs.steps[i].result = "skipped"
                     /\ obs.steps[i].target = <<>>
        /\ \A k \in DOMAIN fs :
              \E i \in DOMAIN obs.steps :
                  LET m == obs.steps[i].member
                  IN  /\ m # <<>>
                      /\ m[Len(m)] # SLASH
                      /\ obs.steps[i].result = "written"
                      /\ Normpath(obs.steps[i].target) = k
                      /\ fs[k] = CodecExtract(localArchive, m)

C9_Witness ==
    /\ obs.op = "untar"
    /\ \E i, j \in DOMAIN obs.steps :
          /\ obs.steps[i].member # <<>>
          /\ EndsWith(obs.steps[i].member, <<SLASH>>)
          /\ obs.steps[i].result = "skipped"
          /\ obs.steps[j].result = "written"
    /\ Cardinality(DOMAIN fs) = 1

(* C10: whenever push returns True, the archive it uploaded was created by *)
(* the build step of that same push from the manifest paths existing then. *)
C10_PushUploadsFreshArchive ==
    (obs.op = "push" /\ obs.ret) =>
        /\ obs.codecInvoked
        /\ obs.uploaded = CodecCreate(fs, obs.codecArgs, cwd)

====
